---- MODULE Spec2Model ----
(***************************************************************************)
(* MathTools: dual-number automatic differentiation (diff.py) and the      *)
(* bisection / Newton root finders built on it (root.py).                  *)
(*                                                                         *)
(* Numbers are exact rationals <<n, d>> in lowest terms with d > 0 (the    *)
(* code run on fractions.Fraction inputs); a DualNumber is a record        *)
(* [tag |-> "dual", real, dual], a plain scalar operand is                 *)
(* [tag |-> "scalar", val], a raised exception is [tag |-> "error", err].  *)
(***************************************************************************)
EXTENDS Integers, Sequences, FiniteSets

(* ------------------------------ bounds -------------------------------- *)
\* operands of the arithmetic operators have components in -MaxVal..MaxVal
MaxVal == 3
\* exponents of ** range over -MaxNegPow..MaxPow
MaxPow == 4
MaxNegPow == 2
\* bracket endpoints passed to bisection range over -MaxEnd..MaxEnd
MaxEnd == 3
\* initial guesses passed to newton range over -MaxX0..MaxX0
MaxX0 == 2
\* max_iter passed to newton ranges over 0..MaxIter
MaxIter == 3

(* --------------------------- exact rationals --------------------------- *)
Abs(n) == IF n < 0 THEN -n ELSE n

RECURSIVE GCD(_, _)
GCD(m, n) == IF n = 0 THEN m ELSE GCD(n, m % n)

\* the rational n/d (d # 0) in lowest terms with a positive denominator
R(n, d) ==
    LET g == GCD(Abs(n), Abs(d))
        s == IF d < 0 THEN -1 ELSE 1
    IN  <<(s * n) \div g, (s * d) \div g>>

Num(n) == <<n, 1>>
Zero == Num(0)
One == Num(1)

RAdd(x, y) ==
    LET g == GCD(x[2], y[2])
    IN  R(x[1] * (y[2] \div g) + y[1] * (x[2] \div g), (x[2] \div g) * y[2])
RNeg(x) == <<-x[1], x[2]>>
RSub(x, y) == RAdd(x, RNeg(y))
RMul(x, y) ==
    LET g1 == GCD(Abs(x[1]), y[2])
        g2 == GCD(Abs(y[1]), x[2])
    IN  R((x[1] \div g1) * (y[1] \div g2), (x[2] \div g2) * (y[2] \div g1))
\* y # 0
RDiv(x, y) == RMul(x, R(y[2], y[1]))
RAbs(x) == <<Abs(x[1]), x[2]>>
RSign(x) == IF x[1] > 0 THEN 1 ELSE IF x[1] < 0 THEN -1 ELSE 0
RLe(x, y) == x[1] * y[2] <= y[1] * x[2]
RLt(x, y) == x[1] * y[2] < y[1] * x[2]
RHalf(x) == RDiv(x, Num(2))

(* ------------------- diff.py: class DualNumber ------------------------- *)
Dual(re, du) == [tag |-> "dual", real |-> re, dual |-> du]
Scalar(v) == [tag |-> "scalar", val |-> v]
Raise(e) == [tag |-> "error", err |-> e]
NoValue == [tag |-> "none"]

IsDual(v) == v.tag = "dual"

\* __sub__(self, other)
DSub(self, other) ==
    IF IsDual(other)
    THEN Dual(RSub(self.real, other.real), RSub(self.dual, other.dual))
    ELSE Dual(RSub(self.real, other.val), self.dual)

\* __rsub__ = __sub__ : the reflected operator is the same function
DRSub(self, other) == DSub(self, other)

\* __add__(self, other)
DAdd(self, other) ==
    IF IsDual(other)
    THEN Dual(RAdd(self.real, other.real), RAdd(self.dual, other.dual))
    ELSE Dual(RAdd(self.real, other.val), self.dual)

\* __radd__ = __add__
DRAdd(self, other) == DAdd(self, other)

\* __mul__ with the cross terms of the product rule left out
DMulNoCross(self, other) ==
    IF IsDual(other)
    THEN Dual(RMul(self.real, other.real), RMul(self.dual, other.dual))
    ELSE Dual(RMul(self.real, other.val), RMul(self.dual, other.val))

\* __mul__(self, other)
DMul(self, other) ==
    IF IsDual(other)
    THEN Dual(RMul(self.real, other.real),
              RAdd(RMul(self.dual, other.real), RMul(self.real, other.dual)))
    ELSE Dual(RMul(self.real, other.val), RMul(self.dual, other.val))

\* __rmul__ = __mul__
DRMul(self, other) == DMul(self, other)

\* the guard of __truediv__ testing both components of a DualNumber divisor
TrueDivRaisesAnyZero(other) ==
    IF IsDual(other) THEN other.real = Zero \/ other.dual = Zero
    ELSE other.val = Zero

\* the guard of __truediv__: other == 0 (false for a DualNumber, which
\* defines no __eq__) or other is a DualNumber with other.real == 0
TrueDivRaises(other) ==
    IF IsDual(other) THEN other.real = Zero ELSE other.val = Zero

\* __truediv__(self, other)
DTrueDiv(self, other) ==
    IF TrueDivRaises(other) THEN Raise("ZeroDivisionError")
    ELSE IF IsDual(other)
    THEN Dual(RDiv(self.real, other.real),
              RDiv(RSub(RMul(self.dual, other.real), RMul(self.real, other.dual)),
                   RMul(other.real, other.real)))
    ELSE Dual(RDiv(self.real, other.val), RDiv(self.dual, other.val))

\* the guard of __rtruediv__: self.real == 0
RTrueDivRaises(self) == self.real = Zero

\* __rtruediv__(self, other): other / self
DRTrueDiv(self, other) ==
    IF RTrueDivRaises(self) THEN Raise("ZeroDivisionError")
    ELSE IF IsDual(other)
    THEN Dual(RDiv(other.real, self.real),
              RDiv(RSub(RMul(other.dual, self.real), RMul(other.real, self.dual)),
                   RMul(self.real, self.real)))
    ELSE Dual(RDiv(other.val, self.real),
              RDiv(RMul(RNeg(other.val), self.dual), RMul(self.real, self.real)))

\* the body of the loop of __pow__, run for the remaining i rounds
RECURSIVE PowLoop(_, _, _)
PowLoop(result, self, i) ==
    IF i <= 0 THEN result ELSE PowLoop(DMul(result, self), self, i - 1)

\* __pow__ giving the unit (1, 0) for power 0
DPowUnit(self, power) ==
    IF power = 0 THEN Dual(One, Zero)
    ELSE PowLoop(Dual(self.real, self.dual), self, power - 1)

\* __pow__(self, power): range(power - 1) is empty for power <= 1
DPow(self, power) == PowLoop(Dual(self.real, self.dual), self, power - 1)

\* Python's dispatch of a binary operator: the left operand's method when it
\* is a DualNumber, else the right operand's reflected method
BinOp(o, lhs, rhs) ==
    IF IsDual(lhs)
    THEN CASE o = "add" -> DAdd(lhs, rhs)
           [] o = "sub" -> DSub(lhs, rhs)
           [] o = "mul" -> DMul(lhs, rhs)
           [] o = "div" -> DTrueDiv(lhs, rhs)
    ELSE CASE o = "add" -> DRAdd(rhs, lhs)
           [] o = "sub" -> DRSub(rhs, lhs)
           [] o = "mul" -> DRMul(rhs, lhs)
           [] o = "div" -> DRTrueDiv(rhs, lhs)

(* ------------- the callables handed to diff / bisection / newton -------- *)
\* A polynomial callable of degree 1, 2 or 3 with k > 0, written with the
\* terms up to its degree:
\*   lambda x: (c1*x + c0) / k
\*   lambda x: (c2*x**2 + c1*x + c0) / k
\*   lambda x: (c3*x**3 + c2*x**2 + c1*x + c0) / k
Poly(c0, c1, c2, c3, k) == [kind |-> "poly", c |-> <<c0, c1, c2, c3>>, k |-> k]
\* lambda x: x**n
PowFn(n) == [kind |-> "pow", n |-> n]

\* the degree of a polynomial callable: its highest nonzero coefficient
Degree(f) == IF f.c[4] # 0 THEN 3 ELSE IF f.c[3] # 0 THEN 2 ELSE 1

\* x, x/4, x-1, 2x-1, 1-x, x^2-2, x^2+1, (x^2+1)/4, x^2-1, x^3, x^3-x-2
Fns ==
    { Poly(0, 1, 0, 0, 1), Poly(0, 1, 0, 0, 4), Poly(-1, 1, 0, 0, 1),
      Poly(-1, 2, 0, 0, 1), Poly(1, -1, 0, 0, 1), Poly(-2, 0, 1, 0, 1),
      Poly(1, 0, 1, 0, 1), Poly(1, 0, 1, 0, 4), Poly(-1, 0, 1, 0, 1),
      Poly(0, 0, 0, 1, 1), Poly(-2, -1, 0, 1, 1) }

\* the callables newton is run on: those of Fns of degree <= 2
NewtonFns == { g \in Fns : g.c[4] = 0 }

EpsSet == { R(1, 2), One, Num(2) }

RECURSIVE RPow(_, _)
RPow(x, n) == IF n <= 0 THEN One ELSE RMul(x, RPow(x, n - 1))

\* the term of degree i of the callable on a plain scalar: c0, c1*x, ci*x**i
TermScalar(f, x, i) ==
    IF i = 0 THEN Num(f.c[1])
    ELSE IF i = 1 THEN RMul(Num(f.c[2]), x)
    ELSE RMul(Num(f.c[i + 1]), RPow(x, i))

\* the sum of the terms of degree hi down to lo, added left to right
RECURSIVE SumScalar(_, _, _, _)
SumScalar(f, x, hi, lo) ==
    IF lo = hi THEN TermScalar(f, x, hi)
    ELSE RAdd(SumScalar(f, x, hi, lo + 1), TermScalar(f, x, lo))

\* f(x) on a plain scalar x
EvalScalar(f, x) ==
    IF f.kind = "pow" THEN RPow(x, f.n)
    ELSE RDiv(SumScalar(f, x, Degree(f), 0), Num(f.k))

\* the term of degree i of the callable on a DualNumber X: the scalar c0,
\* c1*X and ci*X**i by __rmul__
TermDual(f, X, i) ==
    IF i = 0 THEN Scalar(Num(f.c[1]))
    ELSE IF i = 1 THEN DRMul(X, Scalar(Num(f.c[2])))
    ELSE DRMul(DPow(X, i), Scalar(Num(f.c[i + 1])))

\* the sum of the terms of degree hi >= 1 down to lo, by __add__
RECURSIVE SumDual(_, _, _, _)
SumDual(f, X, hi, lo) ==
    IF lo = hi THEN TermDual(f, X, hi)
    ELSE DAdd(SumDual(f, X, hi, lo + 1), TermDual(f, X, lo))

\* f(X) on a DualNumber X, operator by operator
EvalDual(f, X) ==
    IF f.kind = "pow" THEN DPow(X, f.n)
    ELSE DTrueDiv(SumDual(f, X, Degree(f), 0), Scalar(Num(f.k)))

\* diff(f, x_value)
Diff(f, xv) == EvalDual(f, Dual(xv, One)).dual

(* ---------------------------- root.py ---------------------------------- *)
\* the sign of the product u * v, from the signs of u and v
ProdSign(su, sv) == su * sv

\* line 18: f(a) * f(b) > 0
BracketRaises(sfa, sfb) == ProdSign(sfa, sfb) > 0

\* line 21 with >= for >
LoopCondGe(lo, hi, eps) == RLe(eps, RAbs(RSub(hi, lo)))

\* line 21: abs(b - a) > epsilon
LoopCond(lo, hi, eps) == RLt(eps, RAbs(RSub(hi, lo)))

\* line 22 and line 30: (a + b) / 2
Mid(lo, hi) == RHalf(RAdd(lo, hi))

\* line 23: abs(f(p)) <= epsilon
FoundRoot(f, p, eps) == RLe(RAbs(EvalScalar(f, p)), eps)

\* line 25: f(a) * f(p) < 0
RootInLeft(f, lo, p) ==
    ProdSign(RSign(EvalScalar(f, lo)), RSign(EvalScalar(f, p))) < 0

\* line 51 running one iteration too many
InRangePlusOne(i, max_iter) == i <= max_iter

\* line 51: for _ in range(max_iter), with i iterations begun so far
InRange(i, max_iter) == i < max_iter

\* line 55 with < for <=
ConvergedStrict(fx, eps) == RLt(RAbs(fx), eps)

\* line 55: abs(fx) <= epsilon
Converged(fx, eps) == RLe(RAbs(fx), eps)

\* line 57: dfx == 0
Stationary(dfx) == dfx = Zero

\* line 58 with -= for +=
PerturbBack(xv, eps) == RSub(xv, eps)

\* line 58: x += epsilon
Perturb(xv, eps) == RAdd(xv, eps)

\* line 61: x -= fx / dfx
NewtonUpdate(xv, fx, dfx) == RSub(xv, RDiv(fx, dfx))

(* ---- root.py line 48: the default guess, on numbers beyond 2^31 -------- *)
\* The default bracket [-1e10, 1e10] and the values of f on it exceed the
\* integers of the narrow rationals above.  They are computed on wide
\* numbers: a magnitude is a sequence of limbs in base Base, least
\* significant first, without leading zeros; a big integer is <<sign,
\* magnitude>>; a wide number [n, s, d] is the big integer n over d * 2^s.
\* Every value of this call is such a number (the endpoints are integers,
\* each midpoint halves, f divides by k), and the float run of the code
\* takes the same values.
Base == 100 * 100

RECURSIVE MStrip(_)
MStrip(u) ==
    IF u # <<>> /\ u[Len(u)] = 0 THEN MStrip(SubSeq(u, 1, Len(u) - 1)) ELSE u

Limb(u, i) == IF i <= Len(u) THEN u[i] ELSE 0

RECURSIVE MAddFrom(_, _, _, _)
MAddFrom(u, v, i, carry) ==
    IF i > Len(u) /\ i > Len(v)
    THEN (IF carry = 0 THEN <<>> ELSE <<carry>>)
    ELSE LET t == Limb(u, i) + Limb(v, i) + carry
         IN  <<t % Base>> \o MAddFrom(u, v, i + 1, t \div Base)

MAdd(u, v) == MAddFrom(u, v, 1, 0)

\* u - v for u >= v
RECURSIVE MSubFrom(_, _, _, _)
MSubFrom(u, v, i, borrow) ==
    IF i > Len(u) THEN <<>>
    ELSE LET t == Limb(u, i) - Limb(v, i) - borrow
         IN  IF t < 0 THEN <<t + Base>> \o MSubFrom(u, v, i + 1, 1)
             ELSE <<t>> \o MSubFrom(u, v, i + 1, 0)

MSub(u, v) == MStrip(MSubFrom(u, v, 1, 0))

RECURSIVE MCmpFrom(_, _, _)
MCmpFrom(u, v, i) ==
    IF i = 0 THEN 0
    ELSE IF u[i] # v[i] THEN (IF u[i] < v[i] THEN -1 ELSE 1)
    ELSE MCmpFrom(u, v, i - 1)

\* -1, 0, 1 as u <, =, > v
MCmp(u, v) ==
    IF Len(u) # Len(v) THEN (IF Len(u) < Len(v) THEN -1 ELSE 1)
    ELSE MCmpFrom(u, v, Len(u))

RECURSIVE MMulLimb(_, _, _, _)
MMulLimb(u, m, i, carry) ==
    IF i > Len(u) THEN (IF carry = 0 THEN <<>> ELSE <<carry>>)
    ELSE LET t == u[i] * m + carry
         IN  <<t % Base>> \o MMulLimb(u, m, i + 1, t \div Base)

RECURSIVE MMulFrom(_, _, _)
MMulFrom(u, v, j) ==
    IF j > Len(v) THEN <<>>
    ELSE MAdd(MMulLimb(u, v[j], 1, 0), <<0>> \o MMulFrom(u, v, j + 1))

MMul(u, v) == MStrip(MMulFrom(u, v, 1))

RECURSIVE MHalfFrom(_, _, _)
MHalfFrom(u, i, rem) ==
    IF i = 0 THEN <<>>
    ELSE LET t == rem * Base + u[i]
         IN  MHalfFrom(u, i - 1, t % 2) \o <<t \div 2>>

\* u \div 2
MHalf(u) == MStrip(MHalfFrom(u, Len(u), 0))

MEven(u) == u = <<>> \/ u[1] % 2 = 0

RECURSIVE MFromNat(_)
MFromNat(m) == IF m = 0 THEN <<>> ELSE <<m % Base>> \o MFromNat(m \div Base)

BZero == <<0, <<>>>>
Big(i) == IF i = 0 THEN BZero ELSE <<(IF i < 0 THEN -1 ELSE 1), MFromNat(Abs(i))>>
BNeg(u) == <<-u[1], u[2]>>
BAdd(u, v) ==
    IF u[1] = 0 THEN v
    ELSE IF v[1] = 0 THEN u
    ELSE IF u[1] = v[1] THEN <<u[1], MAdd(u[2], v[2])>>
    ELSE LET c == MCmp(u[2], v[2])
         IN  IF c = 0 THEN BZero
             ELSE IF c > 0 THEN <<u[1], MSub(u[2], v[2])>>
             ELSE <<v[1], MSub(v[2], u[2])>>
BMul(u, v) ==
    IF u[1] = 0 \/ v[1] = 0 THEN BZero ELSE <<u[1] * v[1], MMul(u[2], v[2])>>

\* u * 2^j
RECURSIVE BShl(_, _)
BShl(u, j) == IF j = 0 THEN u ELSE BShl(BAdd(u, u), j - 1)

Wide(n, s, d) == [n |-> n, s |-> s, d |-> d]
WNum(i) == Wide(Big(i), 0, 1)

\* the same value with the factors 2 common to n and 2^s removed
RECURSIVE WNorm(_)
WNorm(w) ==
    IF w.n[1] = 0 THEN Wide(BZero, 0, w.d)
    ELSE IF w.s > 0 /\ MEven(w.n[2])
         THEN WNorm(Wide(<<w.n[1], MHalf(w.n[2])>>, w.s - 1, w.d))
         ELSE w

WAdd(u, v) ==
    LET s == IF u.s > v.s THEN u.s ELSE v.s
    IN  WNorm(Wide(BAdd(BShl(BMul(u.n, Big(v.d)), s - u.s),
                        BShl(BMul(v.n, Big(u.d)), s - v.s)),
                   s, u.d * v.d))
WNeg(u) == Wide(BNeg(u.n), u.s, u.d)
WSub(u, v) == WAdd(u, WNeg(v))
WMul(u, v) == WNorm(Wide(BMul(u.n, v.n), u.s + v.s, u.d * v.d))
\* u / k for an integer k > 0
WDivInt(u, k) == Wide(u.n, u.s, u.d * k)
WHalf(u) == WNorm(Wide(u.n, u.s + 1, u.d))
WAbs(u) == Wide(<<Abs(u.n[1]), u.n[2]>>, u.s, u.d)
WSign(u) == u.n[1]
WLe(u, v) == WSign(WSub(u, v)) <= 0
WLt(u, v) == WSign(WSub(u, v)) < 0

RECURSIVE WPow(_, _)
WPow(u, e) == IF e <= 0 THEN WNum(1) ELSE WMul(u, WPow(u, e - 1))

\* the term of degree i of the callable on a wide scalar
TermWide(f, u, i) ==
    IF i = 0 THEN WNum(f.c[1])
    ELSE IF i = 1 THEN WMul(WNum(f.c[2]), u)
    ELSE WMul(WNum(f.c[i + 1]), WPow(u, i))

RECURSIVE SumWide(_, _, _, _)
SumWide(f, u, hi, lo) ==
    IF lo = hi THEN TermWide(f, u, hi)
    ELSE WAdd(SumWide(f, u, hi, lo + 1), TermWide(f, u, lo))

\* f(x) on a wide scalar x
EvalWide(f, u) == WDivInt(SumWide(f, u, Degree(f), 0), f.k)

\* line 48: the bracket 1e10 = 10^5 * 10^5 and the tolerance 1e-2
DefaultEnd == Wide(BMul(Big(100000), Big(100000)), 0, 1)
DefaultEps == Wide(Big(1), 0, 100)

\* line 21 on wide numbers: abs(b - a) > epsilon
WideLoopCond(lo, hi, eps) == WLt(eps, WAbs(WSub(hi, lo)))

\* lines 22 and 30 on wide numbers: (a + b) / 2
WideMid(lo, hi) == WHalf(WAdd(lo, hi))

\* line 23 on wide numbers: abs(f(p)) <= epsilon
WideFoundRoot(f, p, eps) == WLe(WAbs(EvalWide(f, p)), eps)

\* line 25 on wide numbers: f(a) * f(p) < 0
WideRootInLeft(f, lo, p) ==
    ProdSign(WSign(EvalWide(f, lo)), WSign(EvalWide(f, p))) < 0

\* 2^j
RECURSIVE Pow2(_)
Pow2(j) == IF j = 0 THEN 1 ELSE 2 * Pow2(j - 1)

\* a magnitude of at most three limbs as an integer
MToNat(u) == Limb(u, 1) + Limb(u, 2) * Base + Limb(u, 3) * Base * Base

\* a wide number (normalised, d = 1) as a narrow rational; its parts are
\* below 2^31 for every default guess of NewtonFns
Narrow(w) == R(w.n[1] * MToNat(w.n[2]), Pow2(w.s))

(* ----------------------------- the state -------------------------------- *)
VARIABLES
    call,    \* the running invocation and its arguments
    pc,      \* "idle", "bisection" (in its loop), "guess" (newton, in the loop
             \* of its default-guess bisection), "newton" (in its loop), "done"
    a, b,    \* bisection: the current endpoints (wide numbers while "guess")
    x,       \* newton: the current iterate
    n,       \* iterations of the running loop begun so far
    ret,     \* what the invocation returned or raised; NoValue while running
    tested,  \* newton: the iterates whose f value was tested, in order
    branch   \* the branch the last loop iteration took

vars == <<call, pc, a, b, x, n, ret, tested, branch>>

Vals == { Num(i) : i \in -MaxVal..MaxVal }
Duals == { Dual(re, du) : re \in Vals, du \in Vals }
Operands == Duals \cup { Scalar(v) : v \in Vals }
Ends == { Num(i) : i \in -MaxEnd..MaxEnd }
Guesses == { Scalar(Num(i)) : i \in -MaxX0..MaxX0 } \cup { NoValue }

Init ==
    /\ call = [fn |-> "none"]
    /\ pc = "idle"
    /\ a = Zero /\ b = Zero /\ x = Zero
    /\ n = 0
    /\ ret = NoValue
    /\ tested = <<>>
    /\ branch = "none"

\* lhs <o> rhs with at least one DualNumber operand
BinOpCall ==
    \E o \in {"add", "sub", "mul", "div"}, lhs \in Operands, rhs \in Operands :
        /\ pc = "idle"
        /\ IsDual(lhs) \/ IsDual(rhs)
        /\ call' = [fn |-> "binop", o |-> o, lhs |-> lhs, rhs |-> rhs]
        /\ ret' = BinOp(o, lhs, rhs)
        /\ pc' = "done"
        /\ UNCHANGED <<a, b, x, n, tested, branch>>

\* self ** power
PowCall ==
    \E self \in Duals, power \in -MaxNegPow..MaxPow :
        /\ pc = "idle"
        /\ call' = [fn |-> "pow", self |-> self, power |-> power]
        /\ ret' = DPow(self, power)
        /\ pc' = "done"
        /\ UNCHANGED <<a, b, x, n, tested, branch>>

\* diff(f, x_value)
DiffCall ==
    \E f \in Fns \cup { PowFn(e) : e \in 1..MaxPow }, xv \in Vals :
        /\ pc = "idle"
        /\ call' = [fn |-> "diff", f |-> f, x |-> xv]
        /\ ret' = Scalar(Diff(f, xv))
        /\ pc' = "done"
        /\ UNCHANGED <<a, b, x, n, tested, branch>>

\* bisection(f, a, b, epsilon): lines 18-19, up to the loop
BisectionCall ==
    \E f \in Fns, lo \in Ends, hi \in Ends, eps \in EpsSet :
        /\ pc = "idle"
        /\ call' = [fn |-> "bisection", f |-> f, a |-> lo, b |-> hi, epsilon |-> eps]
        /\ a' = lo /\ b' = hi
        /\ IF BracketRaises(RSign(EvalScalar(f, lo)), RSign(EvalScalar(f, hi)))
           THEN pc' = "done" /\ ret' = Raise("ValueError")
           ELSE pc' = "bisection" /\ ret' = NoValue
        /\ UNCHANGED <<x, n, tested, branch>>

\* one iteration of the loop of bisection: lines 21-28
BisectionIter ==
    /\ pc = "bisection"
    /\ LoopCond(a, b, call.epsilon)
    /\ n' = n + 1
    /\ LET p == Mid(a, b) IN
         IF FoundRoot(call.f, p, call.epsilon)
         THEN /\ ret' = Scalar(p) /\ pc' = "done" /\ branch' = "found"
              /\ UNCHANGED <<a, b>>
         ELSE IF RootInLeft(call.f, a, p)
         THEN /\ b' = p /\ branch' = "left"
              /\ UNCHANGED <<a, ret, pc>>
         ELSE /\ a' = p /\ branch' = "right"
              /\ UNCHANGED <<b, ret, pc>>
    /\ UNCHANGED <<call, x, tested>>

\* the loop of bisection ends: line 30
BisectionExit ==
    /\ pc = "bisection"
    /\ ~LoopCond(a, b, call.epsilon)
    /\ ret' = Scalar(Mid(a, b))
    /\ pc' = "done"
    /\ branch' = "exit"
    /\ UNCHANGED <<call, a, b, x, n, tested>>

\* newton(f, epsilon, x0, max_iter): lines 47-50, up to its loop when x0 is
\* given; with x0 omitted, line 48 calls bisection(f, -1e10, 1e10, 1e-2),
\* here up to the loop of that call (lines 18-19)
NewtonCall ==
    \E f \in NewtonFns, eps \in EpsSet, x0 \in Guesses, m \in 0..MaxIter :
        /\ pc = "idle"
        /\ call' = [fn |-> "newton", f |-> f, epsilon |-> eps, x0 |-> x0,
                    max_iter |-> m]
        /\ IF x0 # NoValue
           THEN pc' = "newton" /\ ret' = NoValue /\ x' = x0.val
                /\ UNCHANGED <<a, b>>
           ELSE IF BracketRaises(WSign(EvalWide(f, WNeg(DefaultEnd))),
                                 WSign(EvalWide(f, DefaultEnd)))
           THEN pc' = "done" /\ ret' = Raise("ValueError")
                /\ UNCHANGED <<a, b, x>>
           ELSE pc' = "guess" /\ ret' = NoValue
                /\ a' = WNeg(DefaultEnd) /\ b' = DefaultEnd
                /\ UNCHANGED x
        /\ UNCHANGED <<n, tested, branch>>

\* line 48, inside bisection(f, -1e10, 1e10, 1e-2): one iteration of its loop
\* (lines 21-28), or its end (line 30); its return value becomes x (line 50)
DefaultGuessStep ==
    /\ pc = "guess"
    /\ LET p == WideMid(a, b) IN
         IF \/ ~WideLoopCond(a, b, DefaultEps)
            \/ WideFoundRoot(call.f, p, DefaultEps)
         THEN /\ x' = Narrow(p) /\ pc' = "newton"
              /\ UNCHANGED <<a, b>>
         ELSE IF WideRootInLeft(call.f, a, p)
         THEN /\ b' = p /\ UNCHANGED <<a, x, pc>>
         ELSE /\ a' = p /\ UNCHANGED <<b, x, pc>>
    /\ UNCHANGED <<call, n, ret, tested, branch>>

\* one iteration of the loop of newton: lines 51-61
NewtonIter ==
    /\ pc = "newton"
    /\ InRange(n, call.max_iter)
    /\ n' = n + 1
    /\ tested' = Append(tested, x)
    /\ LET fx == EvalScalar(call.f, x)
           dfx == Diff(call.f, x)
       IN  IF Converged(fx, call.epsilon)
           THEN /\ ret' = Scalar(x) /\ pc' = "done" /\ branch' = "found"
                /\ UNCHANGED x
           ELSE IF Stationary(dfx)
           THEN /\ x' = Perturb(x, call.epsilon) /\ branch' = "perturb"
                /\ UNCHANGED <<ret, pc>>
           ELSE /\ x' = NewtonUpdate(x, fx, dfx) /\ branch' = "update"
                /\ UNCHANGED <<ret, pc>>
    /\ UNCHANGED <<call, a, b>>

\* the loop of newton runs out: line 63
NewtonFail ==
    /\ pc = "newton"
    /\ ~InRange(n, call.max_iter)
    /\ ret' = Raise("RuntimeError")
    /\ pc' = "done"
    /\ branch' = "exhausted"
    /\ UNCHANGED <<call, a, b, x, n, tested>>

Next ==
    \/ BinOpCall
    \/ PowCall
    \/ DiffCall
    \/ BisectionCall
    \/ BisectionIter
    \/ BisectionExit
    \/ NewtonCall
    \/ DefaultGuessStep
    \/ NewtonIter
    \/ NewtonFail

Spec == Init /\ [][Next]_vars

(* ------------------------------ claims ---------------------------------- *)
\* a scalar k promoted to DualNumber(k, 0)
Promote(v) == IF IsDual(v) THEN v ELSE Dual(v.val, Zero)

Mixed == call.fn = "binop" /\ ~(IsDual(call.lhs) /\ IsDual(call.rhs))

\* C1: with one scalar operand, on either side, add, sub, mul and div give
\* the result of the Dual-by-Dual rule applied to the promoted operands
\* (so k - x is (k-a, -b) and k / x is (k/a, -k*b/a^2)).
C1_MixedEqualsPromoted ==
    Mixed => ret = BinOp(call.o, Promote(call.lhs), Promote(call.rhs))

BisectionRunning == call.fn = "bisection" /\ ret.tag # "error"

\* C2: while bisection runs its loop and when it leaves it, the current
\* endpoints satisfy f(a) * f(b) <= 0.
C2_BracketInvariant ==
    BisectionRunning =>
        RSign(EvalScalar(call.f, a)) * RSign(EvalScalar(call.f, b)) <= 0

\* f is monotonic on the whole real line: linear with nonzero slope, or a
\* cubic whose derivative 3*c3*x^2 + 2*c2*x + c1 never changes sign
Monotonic(f) ==
    /\ f.kind = "poly"
    /\ \/ f.c[4] = 0 /\ f.c[3] = 0 /\ f.c[2] # 0
       \/ f.c[4] # 0 /\ f.c[3] * f.c[3] <= 3 * f.c[4] * f.c[2]

\* the rational roots of f among the halves between the bracket bounds
RootsIn(f, lo, hi) ==
    { r \in { R(i, 2) : i \in -2 * (MaxEnd + 1)..2 * (MaxEnd + 1) } :
        /\ EvalScalar(f, r) = Zero
        /\ \/ RLe(lo, r) /\ RLe(r, hi)
           \/ RLe(hi, r) /\ RLe(r, lo) }

\* C3: for monotonic f with a root r in [a, b], the value p that bisection
\* returns, by either exit, satisfies |p - r| <= epsilon.
C3_RootWithinEpsilon ==
    (call.fn = "bisection" /\ ret.tag = "scalar" /\ Monotonic(call.f)) =>
        \A r \in RootsIn(call.f, call.a, call.b) :
            RLe(RAbs(RSub(ret.val, r)), call.epsilon)

Meets(f, v, eps) == RLe(RAbs(EvalScalar(f, v)), eps)

NewtonGiven == call.fn = "newton" /\ call.x0 # NoValue

\* C4: newton with x0 supplied runs at most max_iter iterations; a returned
\* value is the first tested iterate, starting with x0, whose f value is
\* within epsilon; when none of max_iter tested iterates is, the call raises
\* RuntimeError (the spec's ConvergenceError) and returns nothing.
C4_NewtonContract ==
    NewtonGiven =>
        /\ n <= call.max_iter /\ Len(tested) = n
        /\ n >= 1 => tested[1] = call.x0.val
        /\ ret.tag = "scalar" =>
              /\ n >= 1 /\ ret.val = tested[n]
              /\ Meets(call.f, ret.val, call.epsilon)
              /\ \A i \in 1..(n - 1) : ~Meets(call.f, tested[i], call.epsilon)
        /\ ret.tag = "error" =>
              /\ ret = Raise("RuntimeError")
              /\ n = call.max_iter
              /\ \A i \in 1..n : ~Meets(call.f, tested[i], call.epsilon)
        /\ pc = "done" => ret.tag \in {"scalar", "error"}

C4_Witness ==
    /\ NewtonGiven /\ pc = "done" /\ ret.tag = "scalar" /\ n >= 3
    /\ call.max_iter = n

\* newton is run on f(x) = x**2 + 1 with epsilon < 1
NoRootCase ==
    /\ call.fn = "newton"
    /\ call.f = Poly(1, 0, 1, 0, 1)
    /\ RLt(call.epsilon, One)

\* C5 as stated: on x**2 + 1 with epsilon < 1, with x0 given or omitted,
\* newton ends by raising RuntimeError after all max_iter iterations.
C5_AlwaysConvergenceError ==
    (NoRootCase /\ pc = "done") =>
        ret = Raise("RuntimeError") /\ n = call.max_iter

\* C5 amended: on x**2 + 1 with epsilon < 1 and x0 given, newton returns no
\* value and ends by raising RuntimeError after all max_iter iterations; with
\* x0 omitted, the bracket check of the default bisection raises ValueError
\* (the spec's BracketError) before any iteration of newton.
C5_NoRootOutcome ==
    NoRootCase =>
        /\ ret.tag # "scalar"
        /\ IF call.x0 = NoValue
           THEN pc = "done" /\ ret = Raise("ValueError") /\ n = 0
           ELSE pc = "done" => ret = Raise("RuntimeError") /\ n = call.max_iter

C5_Witness ==
    /\ NoRootCase /\ call.x0 # NoValue /\ call.max_iter >= 3
    /\ pc = "done" /\ n = call.max_iter /\ ret = Raise("RuntimeError")

RECURSIVE IntPow(_, _)
IntPow(base, e) == IF e = 0 THEN 1 ELSE base * IntPow(base, e - 1)

\* C6: for n >= 1 and an integer a # 0, diff(x -> x**n, a) = n * a**(n-1);
\* x**1 is x, and diff(x -> x*x, 3) is the value 2*a at a (6 at 3).
C6_PowerRule ==
    /\ (call.fn = "diff" /\ call.f.kind = "pow" /\ call.x # Zero) =>
           ret = Scalar(Num(call.f.n * IntPow(call.x[1], call.f.n - 1)))
    /\ (call.fn = "pow" /\ call.power = 1) => ret = call.self
    /\ (call.fn = "binop" /\ call.o = "mul" /\ call.lhs = call.rhs
            /\ IsDual(call.lhs) /\ call.lhs.dual = One) =>
           ret.dual = Num(2 * call.lhs.real[1])

C6_Witness ==
    /\ call.fn = "diff" /\ call.f = PowFn(3) /\ call.x = Num(2)
    /\ ret = Scalar(Num(12))

\* the real component of the divisor of the division in call
DivisorReal == IF IsDual(call.rhs) THEN call.rhs.real ELSE call.rhs.val

\* C7: a division raises ZeroDivisionError (the spec's DivisionByZero), and
\* yields no DualNumber, exactly when the real component of its divisor is 0,
\* for x / y, x / k and k / x.
C7_DivisionByZero ==
    (call.fn = "binop" /\ call.o = "div") =>
        /\ ret.tag \in {"dual", "error"}
        /\ ret.tag = "error" <=> DivisorReal = Zero
        /\ ret.tag = "error" => ret = Raise("ZeroDivisionError")

C7_Witness ==
    /\ call.fn = "binop" /\ call.o = "div"
    /\ ~IsDual(call.lhs) /\ call.rhs.real = Zero /\ call.rhs.dual # Zero
    /\ ret = Raise("ZeroDivisionError")

Width(lo, hi) == RAbs(RSub(hi, lo))

\* the least j >= i with w <= eps * 2^j: ceil(log2(w / eps)), and 0 when
\* w <= eps
RECURSIVE CeilLog2(_, _, _)
CeilLog2(w, eps, i) ==
    IF w[1] * eps[2] <= eps[1] * w[2] * IntPow(2, i) THEN i
    ELSE CeilLog2(w, eps, i + 1)

\* C8: bisection terminates: an iteration that does not return halves
\* |b - a|, the loop begins at most ceil(log2((b - a) / epsilon)) iterations,
\* and then the call returns a value.
C8_Termination ==
    /\ [](BisectionRunning =>
            /\ n <= CeilLog2(Width(call.a, call.b), call.epsilon, 0)
            /\ (pc = "bisection"
                  /\ n = CeilLog2(Width(call.a, call.b), call.epsilon, 0))
                 => RLe(Width(a, b), call.epsilon)
            /\ pc = "done" => ret.tag = "scalar")
    /\ [][(pc = "bisection" /\ pc' = "bisection") =>
            /\ n' = n + 1
            /\ RAdd(Width(a', b'), Width(a', b')) = Width(a, b)]_vars

C8_Witness ==
    /\ call.fn = "bisection" /\ pc = "done" /\ branch = "exit"
    /\ n >= 3
    /\ n = CeilLog2(Width(call.a, call.b), call.epsilon, 0)

\* C9: in newton, at an iterate x with |f(x)| > epsilon the step raises
\* nothing and uses one iteration; with diff(f, x) = 0 the next iterate is
\* x + epsilon, and the update x - f(x)/f'(x) is applied only otherwise.
C9_StationaryStep ==
    [][(pc = "newton" /\ n < call.max_iter
            /\ ~Meets(call.f, x, call.epsilon)) =>
         /\ pc' = "newton" /\ ret' = NoValue /\ n' = n + 1
         /\ IF Diff(call.f, x) = Zero
            THEN x' = RAdd(x, call.epsilon)
            ELSE x' = RSub(x, RDiv(EvalScalar(call.f, x), Diff(call.f, x)))]_vars

C9_Witness ==
    /\ pc = "newton" /\ branch = "perturb" /\ n >= 1
    /\ x = RAdd(tested[n], call.epsilon)
    /\ Diff(call.f, tested[n]) = Zero

\* C10: for an exponent n <= 0, x**n raises nothing and is a DualNumber
\* equal to x, as x**1 is; x**0 is (a, b), not (1, 0).
C10_NonPositivePower ==
    (call.fn = "pow" /\ call.power <= 0) =>
        /\ ret = Dual(call.self.real, call.self.dual)
        /\ call.power = 0 /\ call.self # Dual(One, Zero) => ret # Dual(One, Zero)

C10_Witness ==
    /\ call.fn = "pow" /\ call.power = 0 /\ call.self = Dual(Num(2), One)
    /\ ret = Dual(Num(2), One)

====
